---- MODULE Spec2Model ----
(***************************************************************************)
(* Client-side state synchronisation of the daily-notes application:       *)
(* the note store (debounced autosave, status lifecycle), the reminder     *)
(* store, the AI-log store and the navigation / selection controller,      *)
(* running on one event loop against the backend command gateway.          *)
(*                                                                         *)
(* React closures are modelled by what they capture: an asynchronous flow  *)
(* or a timer callback keeps the values of the render in which it was      *)
(* created (the `c` record of a flow, the payload of a timer), while a     *)
(* handler invoked by a user event reads the current state.                *)
(***************************************************************************)
EXTENDS Integers, Sequences, FiniteSets, TLC

\* ---------------------------------------------------------------- bounds
MaxEvents == 2     \* user events that edit the note or start a gateway call
MaxToggles == 2    \* uses of the show / hide resolved button
MaxFlows  == 3     \* asynchronous operations in flight at the same time
MaxInit   == 2     \* unresolved reminders the backend holds at start
MaxFail   == 1     \* gateway calls that reject in one behaviour

\* ------------------------------------------------------ program constants
DebounceMs  == 30000
AnalyzingMs == 300
IdleMs      == 3000

NoSel == -1        \* selectedReminderIndex === null

Views == {"today", "history", "reminders", "ai-logs"}
Texts == {"", "a"}
Dates == {"d1", "d2"}

\* Reminder identities: those unresolved at start, one resolved at start,
\* and the ones the analysis can still create.
MaxRem == MaxInit + 2

\* AI-log identities: one for each analysis that ran before the start and
\* one for each save.
MaxLog == MaxInit + MaxEvents

VARIABLES
  \* App (controller)
  currentView, selectedReminderIndex, pastDays, focus,
  \* useNotes
  notes, currentDate, status, timers,
  \* useReminders
  reminders, resolvedReminders, showResolvedReminders,
  \* useAiLogs
  aiLogs,
  \* gateway: asynchronous operations in flight
  flows,
  \* backend behind the gateway
  bUnres, bRes, bNote, bLogs, bDate, nextId,
  \* history (loadedDate: the date key the load at mount obtained)
  order, events, toggles, fails, loadedDate

appVars   == <<currentView, selectedReminderIndex, pastDays, focus>>
noteVars  == <<notes, currentDate, status, timers>>
remVars   == <<reminders, resolvedReminders, showResolvedReminders>>
backVars  == <<bUnres, bRes, bNote, bLogs, bDate, nextId>>
histVars  == <<order, events, toggles, fails, loadedDate>>
vars == <<appVars, noteVars, remVars, aiLogs, flows, backVars, histVars>>

\* ---------------------------------------------------------------- helpers
Min(a, b) == IF a < b THEN a ELSE b

RECURSIVE SortedSeq(_)
SortedSeq(S) ==
  IF S = {} THEN <<>>
  ELSE LET m == CHOOSE x \in S : \A y \in S : x <= y
       IN <<m>> \o SortedSeq(S \ {m})

Range(s) == {s[j] : j \in 1..Len(s)}

NoNote == [text |-> "", for_date |-> "", isNull |-> TRUE]
Note(t, d) == [text |-> t, for_date |-> d, isNull |-> FALSE]
\* notes?.text || ''
HeldText == IF notes.isNull THEN "" ELSE notes.text

StatusNone == [type |-> "none", remindersCount |-> 0]
Status(t) == [type |-> t, remindersCount |-> 0]
StatusSuccess(n) == [type |-> "ai-success", remindersCount |-> n]

\* ----------------------------------------------------------------- timers
\* `timers` holds the pending timers in the order of their deadlines; the
\* head is the next one to fire.
Delay(kind) ==
  CASE kind = "debounce"  -> DebounceMs
    [] kind = "analyzing" -> AnalyzingMs
    [] kind = "idle"      -> IdleMs

\* A timer armed now with delay d is due after every pending timer whose
\* delay is not larger (those were armed earlier); against the others its
\* place depends on how much time has passed.
Positions(q, d) ==
  LET lo == CHOOSE m \in 0..Len(q) :
              /\ (m = 0 \/ Delay(q[m].kind) <= d)
              /\ \A j \in (m+1)..Len(q) : Delay(q[j].kind) > d
  IN (lo + 1)..(Len(q) + 1)

InsertAt(q, p, tm) == SubSeq(q, 1, p - 1) \o <<tm>> \o SubSeq(q, p, Len(q))

\* A pending timer: its callback (kind), what the callback's closure holds
\* (text, date, base), and for the timers of saveNote the save that armed
\* it: `slot` is the slot of that save while it is in flight, `ended` how it
\* ended, and `cur` whether no later save has superseded it (for the
\* 3000 ms timer: whether statusTimeoutRef still refers to it).  `seq` of a
\* 3000 ms timer is the place of its save in the order in which the saves
\* began.
DebounceTimer(t, d, base) ==
  [kind |-> "debounce", text |-> t, date |-> d, base |-> base, slot |-> 0,
   ended |-> "no", cur |-> TRUE, seq |-> 0]
AnalyzingTimer(slot) ==
  [kind |-> "analyzing", text |-> "", date |-> "", base |-> 0, slot |-> slot,
   ended |-> "no", cur |-> TRUE, seq |-> 0]
IdleTimer ==
  [kind |-> "idle", text |-> "", date |-> "", base |-> 0, slot |-> 0,
   ended |-> "ok", cur |-> TRUE, seq |-> 0]

IsPending(q, kind) == \E j \in 1..Len(q) : q[j].kind = kind

\* ------------------------------------------------------------------ flows
NoFlow == [kind |-> "none"]
FreeSlots(fl) == {i \in 1..MaxFlows : fl[i].kind = "none"}
FirstFree(fl) == CHOOSE i \in FreeSlots(fl) : \A j \in FreeSlots(fl) : i <= j
NewFlow(kind, call, arg, c) ==
  [kind |-> kind, call |-> call, arg |-> arg, c |-> c]
Start(fl, f) == [fl EXCEPT ![FirstFree(fl)] = f]
Await(f, call, arg) == [f EXCEPT !.call = call, !.arg = arg]

\* ------------------------------------------------------------- backend
\* The command handlers behind the gateway.  A call in flight is answered
\* in one step: the backend runs the command and the awaiting operation
\* resumes with the payload (or with the rejection).  Calls in flight are
\* answered in any order.

\* The payload the pending call of operation f resolves with.
Payload(f) ==
  CASE f.call = "get_formatted_date"       -> bDate
    [] f.call = "get_notes_for_date"       -> Note(bNote[f.arg], f.arg)
    [] f.call = "get_all_notes"            -> bNote
    [] f.call = "get_unresolved_reminders" -> SortedSeq(bUnres)
    [] f.call = "get_resolved_reminders"   -> SortedSeq(bRes)
    [] f.call = "get_all_ai_logs"          -> SortedSeq(bLogs)
    [] OTHER                               -> <<>>

\* The identity the backend gives to the next AI log.
NextLogId == 1 + CHOOSE m \in bLogs \cup {0} : \A n \in bLogs \cup {0} : n <= m

\* The effect of the pending call of operation f on the backend.
Command(f) ==
  CASE f.call = "add_note" ->
         /\ bNote' = [bNote EXCEPT ![f.arg.date] = f.arg.text]
         /\ bLogs' = bLogs \cup {NextLogId}
         /\ \E created \in BOOLEAN :
              IF created /\ nextId <= MaxRem
              THEN bUnres' = bUnres \cup {nextId} /\ nextId' = nextId + 1
              ELSE created = FALSE /\ UNCHANGED <<bUnres, nextId>>
         /\ UNCHANGED <<bRes, bDate>>
    [] f.call = "resolve_reminder" ->
         /\ IF f.arg \in bUnres
            THEN bUnres' = bUnres \ {f.arg} /\ bRes' = bRes \cup {f.arg}
            ELSE UNCHANGED <<bUnres, bRes>>
         /\ UNCHANGED <<bNote, bLogs, bDate, nextId>>
    [] f.call = "unresolve_reminder" ->
         /\ IF f.arg \in bRes
            THEN bRes' = bRes \ {f.arg} /\ bUnres' = bUnres \cup {f.arg}
            ELSE UNCHANGED <<bUnres, bRes>>
         /\ UNCHANGED <<bNote, bLogs, bDate, nextId>>
    [] f.call = "delete_reminder" ->
         /\ bUnres' = bUnres \ {f.arg}
         /\ bRes' = bRes \ {f.arg}
         /\ UNCHANGED <<bNote, bLogs, bDate, nextId>>
    [] f.call = "delete_ai_log" ->
         /\ bLogs' = bLogs \ {f.arg}
         /\ UNCHANGED <<bUnres, bRes, bNote, bDate, nextId>>
    [] f.call = "delete_all_ai_logs" ->
         /\ bLogs' = {}
         /\ UNCHANGED <<bUnres, bRes, bNote, bDate, nextId>>
    [] OTHER -> UNCHANGED backVars

Response(f, ok) == [st |-> IF ok THEN "ok" ELSE "err", val |-> Payload(f)]

\* The pending call of operation f resolves (ok) or rejects.
Gateway(f, ok) ==
  IF ok THEN Command(f) /\ UNCHANGED fails
  ELSE /\ fails < MaxFail
       /\ fails' = fails + 1
       /\ UNCHANGED backVars

\* ------------------------------------------------------------ useNotes
NotDebounce(tm) == tm.kind # "debounce"
NotCurrentIdle(tm) == ~(tm.kind = "idle" /\ tm.cur)
Superseded(kind, tm) == IF tm.kind = kind THEN [tm EXCEPT !.cur = FALSE] ELSE tm
Supersede(kind, tq) == [j \in 1..Len(tq) |-> Superseded(kind, tq[j])]
Ended(i, how, tm) ==
  IF tm.kind = "analyzing" /\ tm.slot = i THEN [tm EXCEPT !.slot = 0, !.ended = how] ELSE tm
\* The save in slot i has ended (how: "ok" or "failed"); its 300 ms timer,
\* which nothing cancels, may still be pending.
SaveEnded(i, how, tq) == [j \in 1..Len(tq) |-> Ended(i, how, tq[j])]

\* The place of a save that begins now in the order of the saves: after
\* every save in flight and after the save of every pending 3000 ms timer.
NextSeq(tq, fl) ==
  LET used == {fl[i].c.seq : i \in {k \in 1..MaxFlows : fl[k].kind = "save"}}
              \cup {tq[j].seq : j \in 1..Len(tq)} \cup {0}
  IN 1 + CHOOSE m \in used : \A n \in used : n <= m

\* No save is in flight (a save that begins now overlaps no other).
NoSave(fl) == \A k \in 1..MaxFlows : fl[k].kind # "save"

\* A clearDebounceTimer that leaves the pending timer.
clearDebounceTimer_leaves(tq) == tq

\* clearTimeout(debounceTimerRef.current)
clearDebounceTimer(tq) == SelectSeq(tq, NotDebounce)

\* A saveNote that issues add_note a second time when a slot is left.
saveNote_callsTwice(text, forDate, base, tq, fl) ==
  LET q1 == Supersede("analyzing", SelectSeq(tq, NotCurrentIdle))
      f  == NewFlow("save", "add_note", [text |-> text, date |-> forDate],
                    [base |-> base, seq |-> NextSeq(tq, fl), lone |-> NoSave(fl)])
  IN { [ status |-> Status("saving"),
         timers |-> InsertAt(q1, p, AnalyzingTimer(FirstFree(fl))),
         flows  |-> IF Cardinality(FreeSlots(fl)) >= 2
                    THEN Start(Start(fl, f), f) ELSE Start(fl, f) ]
       : p \in Positions(q1, AnalyzingMs) }

\* The synchronous part of saveNote, up to its first await: the outcomes it
\* can have on (status, timers, flows), one for each place the 300 ms timer
\* can take among the pending timers.  `base` is the remindersCount the
\* invoked closure holds.  The add_note call is issued here.
saveNote(text, forDate, base, tq, fl) ==
  LET q1 == Supersede("analyzing", SelectSeq(tq, NotCurrentIdle))
  IN { [ status |-> Status("saving"),
         timers |-> InsertAt(q1, p, AnalyzingTimer(FirstFree(fl))),
         flows  |-> Start(fl, NewFlow("save", "add_note",
                                      [text |-> text, date |-> forDate],
                                      [base |-> base, seq |-> NextSeq(tq, fl),
                                       lone |-> NoSave(fl)])) ]
       : p \in Positions(q1, AnalyzingMs) }

\* The outcome that reports success also when nothing was added.
Outcome_countsZero(updated, base) ==
  LET newRemindersCount == Len(updated) - base
  IN IF newRemindersCount >= 0 THEN StatusSuccess(newRemindersCount)
     ELSE Status("ai-no-action")

\* The status a successful save reports: the re-fetched count against the
\* count captured before the save.
Outcome(updated, base) ==
  LET newRemindersCount == Len(updated) - base
  IN IF newRemindersCount > 0 THEN StatusSuccess(newRemindersCount)
     ELSE Status("ai-no-action")

\* statusTimeoutRef.current = window.setTimeout(..., 3000)
ArmIdle(tq, p, seq) ==
  InsertAt(Supersede("idle", tq), p, [IdleTimer EXCEPT !.seq = seq])

\* handleNotesChange that arms the new timer and leaves the pending one.
handleNotesChange_keepsTimer(text, tq) ==
  IF currentDate = "" THEN [notes |-> notes, timers |-> tq]
  ELSE [ notes  |-> Note(text, currentDate),
         timers |-> Append(tq, DebounceTimer(text, currentDate, Len(reminders))) ]

\* handleNotesChange(text): the new note and the timers after the keystroke.
handleNotesChange(text, tq) ==
  IF currentDate = "" THEN [notes |-> notes, timers |-> tq]
  ELSE [ notes  |-> Note(text, currentDate),
         timers |-> Append(clearDebounceTimer(tq),
                           DebounceTimer(text, currentDate, Len(reminders))) ]

\* Focus effect of the App: on a change of view, notes or selection, with
\* today active and nothing selected, the textarea takes the focus.
FocusEffect(view, sel, changed, f) ==
  IF view # "today" THEN "other"
  ELSE IF sel = NoSel /\ changed THEN "note"
  ELSE f

\* A change handler that leaves the selection as it is.
Keystroke_keepsSelection(t) ==
  /\ events < MaxEvents
  /\ currentView = "today"
  /\ t # HeldText
  /\ LET r == handleNotesChange(t, timers)
     IN /\ notes' = r.notes
        /\ timers' = r.timers
  /\ focus' = "note"
  /\ events' = IF currentDate # "" THEN events + 1 ELSE events
  /\ UNCHANGED <<currentView, selectedReminderIndex, pastDays, currentDate, status,
                 remVars, aiLogs, flows, backVars, order, toggles, fails, loadedDate>>

\* onChange of the textarea: handleNotesChangeWrapper
Keystroke(t) ==
  /\ events < MaxEvents
  /\ currentView = "today"
  /\ t # HeldText
  /\ LET r == handleNotesChange(t, timers)
     IN /\ notes' = r.notes
        /\ timers' = r.timers
  /\ selectedReminderIndex' = NoSel
  /\ focus' = "note"
  /\ events' = IF currentDate # "" THEN events + 1 ELSE events
  /\ UNCHANGED <<currentView, pastDays, currentDate, status, remVars, aiLogs,
                 flows, backVars, order, toggles, fails, loadedDate>>

\* handleSaveImmediate that saves and leaves the debounce timer pending.
handleSaveImmediate_keepsTimer(tq, fl) ==
  IF currentDate = "" THEN {}
  ELSE saveNote(HeldText, currentDate, Len(reminders), tq, fl)

\* handleSaveImmediate
handleSaveImmediate(tq, fl) ==
  IF currentDate = "" THEN {}
  ELSE saveNote(HeldText, currentDate, Len(reminders), clearDebounceTimer(tq), fl)

\* An Enter handler that saves whether or not the date is known.
PressEnter_savesWithoutDate ==
  /\ events < MaxEvents
  /\ currentView = "today"
  /\ FreeSlots(flows) # {}
  /\ \E r \in saveNote(HeldText, currentDate, Len(reminders),
                       clearDebounceTimer(timers), flows) :
       /\ status' = r.status
       /\ timers' = r.timers
       /\ flows' = r.flows
  /\ focus' = "note"
  /\ events' = events + 1
  /\ UNCHANGED <<currentView, selectedReminderIndex, pastDays, notes, currentDate,
                 remVars, aiLogs, backVars, order, toggles, fails, loadedDate>>

\* onKeyDown of the textarea with key Enter: handleKeyDown
PressEnter ==
  /\ events < MaxEvents
  /\ currentView = "today"
  /\ FreeSlots(flows) # {}
  /\ IF currentDate # "" /\ handleSaveImmediate(timers, flows) # {}
     THEN \E r \in handleSaveImmediate(timers, flows) :
            /\ status' = r.status
            /\ timers' = r.timers
            /\ flows' = r.flows
     ELSE UNCHANGED <<status, timers, flows>>
  /\ focus' = "note"
  /\ events' = IF currentDate # "" THEN events + 1 ELSE events
  /\ UNCHANGED <<currentView, selectedReminderIndex, pastDays, notes, currentDate,
                 remVars, aiLogs, backVars, order, toggles, fails, loadedDate>>

\* The debounce timer fires: saveNote(text, currentDate) of the closure that
\* armed it.
DebounceFire ==
  /\ timers # <<>>
  /\ Head(timers).kind = "debounce"
  /\ FreeSlots(flows) # {}
  /\ LET tm == Head(timers)
     IN \E r \in saveNote(tm.text, tm.date, tm.base, Tail(timers), flows) :
          /\ status' = r.status
          /\ timers' = r.timers
          /\ flows' = r.flows
  /\ UNCHANGED <<appVars, notes, currentDate, remVars, aiLogs, backVars,
                 order, events, toggles, fails, loadedDate>>

\* The 300 ms timer of a save fires.
AnalyzingFire ==
  /\ timers # <<>>
  /\ Head(timers).kind = "analyzing"
  /\ status' = Status("ai-running")
  /\ timers' = Tail(timers)
  /\ UNCHANGED <<appVars, notes, currentDate, remVars, aiLogs, flows, backVars, histVars>>

\* The 3000 ms timer armed at the end of a save fires.
IdleFire ==
  /\ timers # <<>>
  /\ Head(timers).kind = "idle"
  /\ status' = StatusNone
  /\ timers' = Tail(timers)
  /\ UNCHANGED <<appVars, notes, currentDate, remVars, aiLogs, flows, backVars, histVars>>

\* A catch branch that reports an outcome and arms the 3000 ms timer.
saveNoteCatch_reportsOutcome(i) ==
  /\ status' = Status("ai-no-action")
  /\ \E p \in Positions(timers, IdleMs) :
       timers' = SaveEnded(i, "failed", ArmIdle(timers, p, flows[i].c.seq))
  /\ flows' = [flows EXCEPT ![i] = NoFlow]
  /\ UNCHANGED reminders

\* The catch branch of saveNote, for the save in slot i.
saveNoteCatch(i) ==
  /\ status' = StatusNone
  /\ timers' = SaveEnded(i, "failed", timers)
  /\ flows' = [flows EXCEPT ![i] = NoFlow]
  /\ UNCHANGED reminders

\* saveNote after its awaits: a response reaches the save in slot i.
saveNoteResumed(i, r) ==
  /\ LET f == flows[i]
     IN CASE r.st = "err" -> saveNoteCatch(i)
          [] r.st = "ok" /\ f.call = "add_note" ->
               /\ flows' = [flows EXCEPT ![i] = Await(f, "get_unresolved_reminders", <<>>)]
               /\ UNCHANGED <<status, timers, reminders>>
          [] r.st = "ok" /\ f.call = "get_unresolved_reminders" ->
               /\ reminders' = r.val
               /\ status' = Outcome(r.val, f.c.base)
               /\ \E p \in Positions(timers, IdleMs) :
                    timers' = SaveEnded(i, "ok", ArmIdle(timers, p, f.c.seq))
               /\ flows' = [flows EXCEPT ![i] = NoFlow]
  /\ UNCHANGED <<appVars, notes, currentDate, resolvedReminders, showResolvedReminders,
                 aiLogs, order, events, toggles, loadedDate>>

SaveAnswered(i) ==
  /\ flows[i].kind = "save"
  /\ \E ok \in BOOLEAN :
       /\ Gateway(flows[i], ok)
       /\ saveNoteResumed(i, Response(flows[i], ok))

\* The calendar day changes in the backend.
NextDay ==
  /\ bDate = "d1"
  /\ bDate' = "d2"
  /\ UNCHANGED <<appVars, noteVars, remVars, aiLogs, flows,
                 bUnres, bRes, bNote, bLogs, nextId, histVars>>

\* ---------------------------------------------------------- App: mount
\* init(): await loadTodayNote(); await loadUnresolvedReminders()
initResumed(i, r) ==
  /\ LET f == flows[i]
         next == flows' = [flows EXCEPT ![i] = Await(f, "get_unresolved_reminders", <<>>)]
     IN CASE f.call = "get_formatted_date" /\ r.st = "ok" ->
               /\ currentDate' = r.val
               /\ loadedDate' = r.val
               /\ flows' = [flows EXCEPT ![i] = Await(f, "get_notes_for_date", r.val)]
               /\ UNCHANGED <<notes, reminders, focus>>
          [] f.call = "get_notes_for_date" /\ r.st = "ok" ->
               /\ notes' = r.val
               /\ focus' = FocusEffect(currentView, selectedReminderIndex, TRUE, focus)
               /\ next
               /\ UNCHANGED <<currentDate, reminders, loadedDate>>
          [] f.call \in {"get_formatted_date", "get_notes_for_date"} /\ r.st = "err" ->
               /\ next
               /\ UNCHANGED <<currentDate, notes, reminders, focus, loadedDate>>
          [] f.call = "get_unresolved_reminders" ->
               /\ reminders' = IF r.st = "ok" THEN r.val ELSE reminders
               /\ flows' = [flows EXCEPT ![i] = NoFlow]
               /\ UNCHANGED <<currentDate, notes, focus, loadedDate>>
  /\ UNCHANGED <<currentView, selectedReminderIndex, pastDays, status, timers,
                 resolvedReminders, showResolvedReminders, aiLogs, order, events, toggles>>

MountAnswered(i) ==
  /\ flows[i].kind = "mount"
  /\ \E ok \in BOOLEAN :
       /\ Gateway(flows[i], ok)
       /\ initResumed(i, Response(flows[i], ok))

\* -------------------------------------------------------- useReminders
\* handleResolveReminder that keeps the captured index as it is.
handleResolveReminder_keepsIndex(capSel, updated) ==
  IF capSel # NoSel
  THEN IF Len(updated) > 0 THEN capSel ELSE NoSel
  ELSE selectedReminderIndex

\* handleResolveReminder after `await resolveReminder(id)`: the selection it
\* sets, from the selection its closure captured and the list returned.
handleResolveReminder(capSel, updated) ==
  IF capSel # NoSel
  THEN IF Len(updated) > 0 THEN Min(capSel, Len(updated) - 1) ELSE NoSel
  ELSE selectedReminderIndex

\* The focus after handleResolveReminder: textareaRef.current.focus() when
\* the list became empty, then the focus effect.
FocusAfterResolve(capSel, updated, newSel) ==
  LET f1 == IF capSel # NoSel /\ Len(updated) = 0 /\ currentView = "today"
            THEN "note" ELSE focus
  IN FocusEffect(currentView, newSel, newSel # selectedReminderIndex, f1)

\* resolveReminder (c.handled: invoked through handleResolveReminder)
resolveReminderResumed(i, r) ==
  /\ LET f == flows[i]
         finish(updated) ==
           /\ flows' = [flows EXCEPT ![i] = NoFlow]
           /\ IF f.c.handled
              THEN /\ selectedReminderIndex' = handleResolveReminder(f.c.sel, updated)
                   /\ focus' = FocusAfterResolve(f.c.sel, updated,
                                   handleResolveReminder(f.c.sel, updated))
              ELSE UNCHANGED <<selectedReminderIndex, focus>>
     IN CASE r.st = "err" ->
               /\ flows' = [flows EXCEPT ![i] = NoFlow]
               /\ UNCHANGED <<reminders, resolvedReminders, selectedReminderIndex, focus>>
          [] r.st = "ok" /\ f.call = "resolve_reminder" ->
               /\ flows' = [flows EXCEPT ![i] = Await(f, "get_unresolved_reminders", <<>>)]
               /\ UNCHANGED <<reminders, resolvedReminders, selectedReminderIndex, focus>>
          [] r.st = "ok" /\ f.call = "get_unresolved_reminders" ->
               /\ reminders' = r.val
               /\ IF f.c.show
                  THEN /\ flows' = [flows EXCEPT ![i] =
                             Await([f EXCEPT !.c.upd = r.val, !.c.changed = (r.val # reminders)],
                                   "get_resolved_reminders", <<>>)]
                       /\ UNCHANGED <<selectedReminderIndex, focus>>
                  ELSE finish(r.val)
               /\ UNCHANGED resolvedReminders
          [] r.st = "ok" /\ f.call = "get_resolved_reminders" ->
               /\ resolvedReminders' = r.val
               /\ finish(f.c.upd)
               /\ UNCHANGED reminders
  /\ UNCHANGED <<currentView, pastDays, noteVars, showResolvedReminders, aiLogs,
                 order, events, toggles, loadedDate>>

ResolveAnswered(i) ==
  /\ flows[i].kind = "resolve"
  /\ \E ok \in BOOLEAN :
       /\ Gateway(flows[i], ok)
       /\ resolveReminderResumed(i, Response(flows[i], ok))

\* unresolveReminder
unresolveReminderResumed(i, r) ==
  /\ LET f == flows[i]
     IN CASE r.st = "err" ->
               /\ flows' = [flows EXCEPT ![i] = NoFlow]
               /\ UNCHANGED <<reminders, resolvedReminders>>
          [] r.st = "ok" /\ f.call = "unresolve_reminder" ->
               /\ flows' = [flows EXCEPT ![i] = Await(f, "get_unresolved_reminders", <<>>)]
               /\ UNCHANGED <<reminders, resolvedReminders>>
          [] r.st = "ok" /\ f.call = "get_unresolved_reminders" ->
               /\ reminders' = r.val
               /\ flows' = [flows EXCEPT ![i] =
                    IF f.c.show
                    THEN Await([f EXCEPT !.c.changed = (r.val # reminders)],
                               "get_resolved_reminders", <<>>)
                    ELSE NoFlow]
               /\ UNCHANGED resolvedReminders
          [] r.st = "ok" /\ f.call = "get_resolved_reminders" ->
               /\ resolvedReminders' = r.val
               /\ flows' = [flows EXCEPT ![i] = NoFlow]
               /\ UNCHANGED reminders
  /\ UNCHANGED <<appVars, noteVars, showResolvedReminders, aiLogs, order, events, toggles, loadedDate>>

UnresolveAnswered(i) ==
  /\ flows[i].kind = "unresolve"
  /\ \E ok \in BOOLEAN :
       /\ Gateway(flows[i], ok)
       /\ unresolveReminderResumed(i, Response(flows[i], ok))

\* deleteReminder(id, isResolved)
deleteReminderResumed(i, r) ==
  /\ LET f == flows[i]
     IN CASE r.st = "err" ->
               /\ flows' = [flows EXCEPT ![i] = NoFlow]
               /\ UNCHANGED <<reminders, resolvedReminders>>
          [] r.st = "ok" /\ f.call = "delete_reminder" ->
               /\ flows' = [flows EXCEPT ![i] =
                    IF f.c.isResolved /\ f.c.show
                    THEN Await(f, "get_resolved_reminders", <<>>)
                    ELSE Await(f, "get_unresolved_reminders", <<>>)]
               /\ UNCHANGED <<reminders, resolvedReminders>>
          [] r.st = "ok" /\ f.call = "get_unresolved_reminders" ->
               /\ reminders' = r.val
               /\ flows' = [flows EXCEPT ![i] = NoFlow]
               /\ UNCHANGED resolvedReminders
          [] r.st = "ok" /\ f.call = "get_resolved_reminders" ->
               /\ resolvedReminders' = r.val
               /\ flows' = [flows EXCEPT ![i] = NoFlow]
               /\ UNCHANGED reminders
  /\ UNCHANGED <<appVars, noteVars, showResolvedReminders, aiLogs, order, events, toggles, loadedDate>>

DeleteAnswered(i) ==
  /\ flows[i].kind = "delete"
  /\ \E ok \in BOOLEAN :
       /\ Gateway(flows[i], ok)
       /\ deleteReminderResumed(i, Response(flows[i], ok))

\* toggleShowResolved invoked while hidden: await loadResolvedReminders(),
\* then setShowResolvedReminders(!showResolvedReminders) of the closure.
toggleShowResolvedResumed(i, r) ==
  /\ resolvedReminders' = IF r.st = "ok" THEN r.val ELSE resolvedReminders
  /\ showResolvedReminders' = ~flows[i].c.show
  /\ flows' = [flows EXCEPT ![i] = NoFlow]
  /\ UNCHANGED <<appVars, noteVars, reminders, aiLogs, order, events, toggles, loadedDate>>

ToggleAnswered(i) ==
  /\ flows[i].kind = "toggle"
  /\ \E ok \in BOOLEAN :
       /\ Gateway(flows[i], ok)
       /\ toggleShowResolvedResumed(i, Response(flows[i], ok))

\* loadUnresolvedReminders / getAllNotes().then / loadAiLogs issued by switchView
prefetchResumed(i, r) ==
  /\ LET f == flows[i]
         ok == r.st = "ok"
     IN /\ reminders' = IF ok /\ f.kind = "loadUnresolved" THEN r.val ELSE reminders
        /\ pastDays' = IF ok /\ f.kind = "history" THEN r.val ELSE pastDays
        /\ aiLogs' = IF ok /\ f.kind = "loadAiLogs" THEN r.val ELSE aiLogs
  /\ flows' = [flows EXCEPT ![i] = NoFlow]
  /\ UNCHANGED <<currentView, selectedReminderIndex, focus, noteVars, resolvedReminders,
                 showResolvedReminders, order, events, toggles, loadedDate>>

PrefetchAnswered(i) ==
  /\ flows[i].kind \in {"loadUnresolved", "history", "loadAiLogs"}
  /\ \E ok \in BOOLEAN :
       /\ Gateway(flows[i], ok)
       /\ prefetchResumed(i, Response(flows[i], ok))

\* ------------------------------------------------------------ useAiLogs
\* A deleteAiLog that removes the log from the list it holds and does not
\* load the list again.
deleteAiLogResumed_patches(i, r) ==
  /\ aiLogs' = IF r.st = "ok"
               THEN SelectSeq(aiLogs, LAMBDA l : l # flows[i].c.logId) ELSE aiLogs
  /\ flows' = [flows EXCEPT ![i] = NoFlow]
  /\ UNCHANGED <<appVars, noteVars, remVars, order, events, toggles, loadedDate>>

\* deleteAiLog(logId)
deleteAiLogResumed(i, r) ==
  /\ LET f == flows[i]
     IN CASE r.st = "err" ->
               /\ flows' = [flows EXCEPT ![i] = NoFlow]
               /\ UNCHANGED aiLogs
          [] r.st = "ok" /\ f.call = "delete_ai_log" ->
               /\ flows' = [flows EXCEPT ![i] = Await(f, "get_all_ai_logs", <<>>)]
               /\ UNCHANGED aiLogs
          [] r.st = "ok" /\ f.call = "get_all_ai_logs" ->
               /\ aiLogs' = r.val
               /\ flows' = [flows EXCEPT ![i] = NoFlow]
  /\ UNCHANGED <<appVars, noteVars, remVars, order, events, toggles, loadedDate>>

DeleteAiLogAnswered(i) ==
  /\ flows[i].kind = "deleteAiLog"
  /\ \E ok \in BOOLEAN :
       /\ Gateway(flows[i], ok)
       /\ deleteAiLogResumed(i, Response(flows[i], ok))

\* A deleteAllAiLogs that empties the list whatever the answer.
deleteAllAiLogsResumed_clearsAnyway(i, r) ==
  /\ aiLogs' = <<>>
  /\ flows' = [flows EXCEPT ![i] = NoFlow]
  /\ UNCHANGED <<appVars, noteVars, remVars, order, events, toggles, loadedDate>>

\* deleteAllAiLogs
deleteAllAiLogsResumed(i, r) ==
  /\ aiLogs' = IF r.st = "ok" THEN <<>> ELSE aiLogs
  /\ flows' = [flows EXCEPT ![i] = NoFlow]
  /\ UNCHANGED <<appVars, noteVars, remVars, order, events, toggles, loadedDate>>

DeleteAllAiLogsAnswered(i) ==
  /\ flows[i].kind = "deleteAllAiLogs"
  /\ \E ok \in BOOLEAN :
       /\ Gateway(flows[i], ok)
       /\ deleteAllAiLogsResumed(i, Response(flows[i], ok))

\* The delete button of a log card on the AI-logs view
ClickDeleteAiLog(id) ==
  /\ events < MaxEvents
  /\ currentView = "ai-logs"
  /\ id \in Range(aiLogs)
  /\ FreeSlots(flows) # {}
  /\ flows' = Start(flows, NewFlow("deleteAiLog", "delete_ai_log", id, [logId |-> id]))
  /\ events' = events + 1
  /\ UNCHANGED <<appVars, noteVars, remVars, aiLogs, backVars, order, toggles, fails, loadedDate>>

\* The Delete All button, disabled while the list is empty
ClickDeleteAllAiLogs ==
  /\ events < MaxEvents
  /\ currentView = "ai-logs"
  /\ Len(aiLogs) > 0
  /\ FreeSlots(flows) # {}
  /\ flows' = Start(flows, NewFlow("deleteAllAiLogs", "delete_all_ai_logs", <<>>, <<>>))
  /\ events' = events + 1
  /\ UNCHANGED <<appVars, noteVars, remVars, aiLogs, backVars, order, toggles, fails, loadedDate>>

\* --------------------------------------------------------------- App
\* switchView(view): the outcomes of the handler, with the order in which
\* it issues its effects.
\* if (currentView === 'today' && notes?.text && currentDate)
switchSaves == currentView = "today" /\ HeldText # "" /\ currentDate # ""

\* A switchView that loads the resolved reminders on entering reminders.
prefetch_loadsResolved(view, fl) ==
  CASE view = "history"   -> Start(fl, NewFlow("history", "get_all_notes", <<>>, <<>>))
    [] view = "reminders" -> Start(fl, NewFlow("loadUnresolved",
                                               "get_resolved_reminders", <<>>, <<>>))
    [] view = "ai-logs"   -> Start(fl, NewFlow("loadAiLogs", "get_all_ai_logs", <<>>, <<>>))
    [] OTHER              -> fl

\* The load switchView issues for the target view.
prefetch(view, fl) ==
  CASE view = "history"   -> Start(fl, NewFlow("history", "get_all_notes", <<>>, <<>>))
    [] view = "reminders" -> Start(fl, NewFlow("loadUnresolved",
                                               "get_unresolved_reminders", <<>>, <<>>))
    [] view = "ai-logs"   -> Start(fl, NewFlow("loadAiLogs", "get_all_ai_logs", <<>>, <<>>))
    [] OTHER              -> fl

prefetchLabel(view) ==
  CASE view = "history"   -> <<"get_all_notes">>
    [] view = "reminders" -> <<"get_unresolved_reminders", "resetResolvedView">>
    [] view = "ai-logs"   -> <<"get_all_ai_logs">>
    [] OTHER              -> <<>>

\* A switchView that abandons the saves that were in flight.
Switched_cancelsSaves(view, r, saved) ==
  [ status |-> r.status, timers |-> r.timers,
    flows  |-> prefetch(view, [i \in 1..MaxFlows |->
                 IF flows[i].kind = "save" THEN NoFlow ELSE r.flows[i]]),
    sel    |-> NoSel,
    view   |-> view,
    show   |-> IF view = "reminders" THEN FALSE ELSE showResolvedReminders,
    resolved |-> IF view = "reminders" THEN <<>> ELSE resolvedReminders,
    order  |-> (IF saved THEN <<"add_note">> ELSE <<>>)
               \o <<"clearSelection", "setView">> \o prefetchLabel(view) ]

\* What switchView leaves behind, given the outcome r of its save part.
Switched(view, r, saved) ==
  [ status |-> r.status, timers |-> r.timers,
    flows  |-> prefetch(view, r.flows),
    sel    |-> NoSel,
    view   |-> view,
    show   |-> IF view = "reminders" THEN FALSE ELSE showResolvedReminders,
    resolved |-> IF view = "reminders" THEN <<>> ELSE resolvedReminders,
    order  |-> (IF saved THEN <<"add_note">> ELSE <<>>)
               \o <<"clearSelection", "setView">> \o prefetchLabel(view) ]

\* switchView that changes the view without saving.
switchView_noSave(view) ==
  { Switched(view, [status |-> status, timers |-> timers, flows |-> flows], FALSE) }

switchView(view) ==
  IF switchSaves
  THEN { Switched(view, r, TRUE) :
           r \in saveNote(HeldText, currentDate, Len(reminders),
                          clearDebounceTimer(timers), flows) }
  ELSE { Switched(view, [status |-> status, timers |-> timers, flows |-> flows], FALSE) }

\* Gateway calls switchView(view) starts.
SwitchNeeds(view) ==
  (IF switchSaves THEN 1 ELSE 0)
  + (IF view = "today" THEN 0 ELSE 1)

\* A switchView that leaves the resolved reminders as they are.
DoSwitchView_keepsResolved(view) ==
  /\ Cardinality(FreeSlots(flows)) >= SwitchNeeds(view)
  /\ \E r \in switchView(view) :
       /\ status' = r.status
       /\ timers' = r.timers
       /\ flows' = r.flows
       /\ selectedReminderIndex' = r.sel
       /\ currentView' = r.view
       /\ order' = r.order
       /\ focus' = FocusEffect(r.view, r.sel,
                     r.view # currentView \/ r.sel # selectedReminderIndex, focus)
  /\ UNCHANGED <<pastDays, notes, currentDate, remVars, aiLogs, backVars, toggles,
                 fails, loadedDate>>

DoSwitchView(view) ==
  /\ Cardinality(FreeSlots(flows)) >= SwitchNeeds(view)
  /\ \E r \in switchView(view) :
       /\ status' = r.status
       /\ timers' = r.timers
       /\ flows' = r.flows
       /\ selectedReminderIndex' = r.sel
       /\ currentView' = r.view
       /\ showResolvedReminders' = r.show
       /\ resolvedReminders' = r.resolved
       /\ order' = r.order
       /\ focus' = FocusEffect(r.view, r.sel,
                     r.view # currentView \/ r.sel # selectedReminderIndex, focus)
  /\ UNCHANGED <<pastDays, notes, currentDate, reminders, aiLogs, backVars, toggles, fails, loadedDate>>

\* A TopNav button, or Cmd/Ctrl + T, H, L
SwitchView(view) ==
  /\ events < MaxEvents
  /\ events' = events + 1
  /\ DoSwitchView(view)

\* Cmd/Ctrl + R (no Shift)
CmdR ==
  IF currentView = "today" /\ selectedReminderIndex = NoSel
  THEN /\ selectedReminderIndex' = IF Len(reminders) > 0 THEN 0 ELSE selectedReminderIndex
       /\ UNCHANGED <<currentView, pastDays, focus, noteVars, remVars, aiLogs, flows,
                      backVars, histVars>>
  ELSE /\ events < MaxEvents
       /\ events' = events + 1
       /\ DoSwitchView("reminders")

\* Unmodified J / K with a selection on today
KeyJ ==
  /\ selectedReminderIndex # NoSel /\ currentView = "today"
  /\ selectedReminderIndex' =
       IF selectedReminderIndex < Len(reminders) - 1
       THEN selectedReminderIndex + 1 ELSE selectedReminderIndex
  /\ UNCHANGED <<currentView, pastDays, focus, noteVars, remVars, aiLogs, flows,
                 backVars, histVars>>

KeyK ==
  /\ selectedReminderIndex # NoSel /\ currentView = "today"
  /\ selectedReminderIndex' =
       IF selectedReminderIndex > 0 THEN selectedReminderIndex - 1 ELSE selectedReminderIndex
  /\ UNCHANGED <<currentView, pastDays, focus, noteVars, remVars, aiLogs, flows,
                 backVars, histVars>>

\* An Escape that also loads the unresolved reminders again.
KeyEscape_reloadsReminders ==
  /\ selectedReminderIndex # NoSel /\ currentView = "today"
  /\ FreeSlots(flows) # {}
  /\ selectedReminderIndex' = NoSel
  /\ focus' = "note"
  /\ flows' = Start(flows, NewFlow("loadUnresolved", "get_unresolved_reminders", <<>>, <<>>))
  /\ UNCHANGED <<currentView, pastDays, noteVars, remVars, aiLogs,
                 backVars, histVars>>

\* Unmodified Escape with a selection on today
KeyEscape ==
  /\ selectedReminderIndex # NoSel /\ currentView = "today"
  /\ selectedReminderIndex' = NoSel
  /\ focus' = "note"
  /\ UNCHANGED <<currentView, pastDays, noteVars, remVars, aiLogs, flows,
                 backVars, histVars>>

\* A resolve operation as invoked: the closure's selection and visibility
\* flag, its local updatedReminders (upd), and whether it has replaced the
\* unresolved collection by a different list (changed).
ResolveFlow(id, handled) ==
  NewFlow("resolve", "resolve_reminder", id,
          [id |-> id, sel |-> selectedReminderIndex, show |-> showResolvedReminders,
           handled |-> handled, upd |-> <<>>, changed |-> FALSE])

\* Unmodified R with a selection on today: resolve the selected reminder
KeyR ==
  /\ events < MaxEvents
  /\ selectedReminderIndex # NoSel /\ currentView = "today"
  /\ FreeSlots(flows) # {}
  /\ flows' = IF selectedReminderIndex < Len(reminders)
              THEN Start(flows, ResolveFlow(reminders[selectedReminderIndex + 1], TRUE))
              ELSE flows
  /\ events' = events + 1
  /\ UNCHANGED <<appVars, noteVars, remVars, aiLogs, backVars, order, toggles, fails, loadedDate>>

\* The resolve button of a reminder: handleResolveReminder on today,
\* resolveReminder on the reminders view.
ClickResolve(id) ==
  /\ events < MaxEvents
  /\ currentView \in {"today", "reminders"}
  /\ id \in Range(reminders)
  /\ FreeSlots(flows) # {}
  /\ flows' = Start(flows, ResolveFlow(id, currentView = "today"))
  /\ focus' \in {focus, "other"}
  /\ events' = events + 1
  /\ UNCHANGED <<currentView, selectedReminderIndex, pastDays, noteVars, remVars, aiLogs,
                 backVars, order, toggles, fails, loadedDate>>

\* The unresolve button of a resolved reminder (reminders view, resolved shown)
ClickUnresolve(id) ==
  /\ events < MaxEvents
  /\ currentView = "reminders" /\ showResolvedReminders
  /\ id \in Range(resolvedReminders)
  /\ FreeSlots(flows) # {}
  /\ flows' = Start(flows, NewFlow("unresolve", "unresolve_reminder", id,
                                   [show |-> showResolvedReminders, changed |-> FALSE]))
  /\ events' = events + 1
  /\ UNCHANGED <<appVars, noteVars, remVars, aiLogs, backVars, order, toggles, fails, loadedDate>>

\* The delete button of a reminder: deleteReminder(id) on today and on the
\* unresolved list, deleteReminder(id, true) on the resolved list.
ClickDelete(id, isResolved) ==
  /\ events < MaxEvents
  /\ IF isResolved
     THEN currentView = "reminders" /\ showResolvedReminders /\ id \in Range(resolvedReminders)
     ELSE currentView \in {"today", "reminders"} /\ id \in Range(reminders)
  /\ FreeSlots(flows) # {}
  /\ flows' = Start(flows, NewFlow("delete", "delete_reminder", id,
                                   [isResolved |-> isResolved, show |-> showResolvedReminders,
                                    changed |-> FALSE]))
  /\ focus' \in IF currentView = "today" THEN {focus, "other"} ELSE {focus}
  /\ events' = events + 1
  /\ UNCHANGED <<currentView, selectedReminderIndex, pastDays, noteVars, remVars, aiLogs,
                 backVars, order, toggles, fails, loadedDate>>

\* The show / hide resolved button: toggleShowResolved
ClickToggle ==
  /\ toggles < MaxToggles
  /\ currentView = "reminders"
  /\ IF showResolvedReminders
     THEN showResolvedReminders' = FALSE /\ UNCHANGED flows
     ELSE /\ FreeSlots(flows) # {}
          /\ flows' = Start(flows, NewFlow("toggle", "get_resolved_reminders", <<>>,
                                           [show |-> showResolvedReminders]))
          /\ UNCHANGED showResolvedReminders
  /\ toggles' = toggles + 1
  /\ UNCHANGED <<appVars, noteVars, reminders, resolvedReminders, aiLogs, backVars,
                 order, events, fails, loadedDate>>

\* Cmd/Ctrl + Shift + R, or the Reload button: handleReload
Reload ==
  /\ events < MaxEvents
  /\ FreeSlots(flows) # {}
  /\ flows' = Start(flows, NewFlow("reload", "init_db", <<>>,
                                   [view |-> currentView, show |-> showResolvedReminders]))
  /\ events' = events + 1
  /\ UNCHANGED <<appVars, noteVars, remVars, aiLogs, backVars, order, toggles, fails, loadedDate>>

\* A reload that adds the fetched reminders to the ones it holds.
setReminders_appends(held, remindersData) == held \o remindersData

\* setReminders(remindersData) of handleReload: the fetched list replaces the
\* held one.
setReminders(held, remindersData) == remindersData

handleReloadResumed(i, r) ==
  /\ LET f == flows[i]
         keep == UNCHANGED <<currentDate, notes, reminders, showResolvedReminders,
                             pastDays, aiLogs, focus>>
     IN CASE r.st = "err" ->
               flows' = [flows EXCEPT ![i] = NoFlow] /\ keep
          [] r.st = "ok" /\ f.call = "init_db" ->
               flows' = [flows EXCEPT ![i] = Await(f, "get_formatted_date", <<>>)] /\ keep
          [] r.st = "ok" /\ f.call = "get_formatted_date" ->
               /\ currentDate' = r.val
               /\ flows' = [flows EXCEPT ![i] = Await(f, "get_notes_for_date", r.val)]
               /\ UNCHANGED <<notes, reminders, showResolvedReminders, pastDays, aiLogs, focus>>
          [] r.st = "ok" /\ f.call = "get_notes_for_date" ->
               /\ notes' = r.val
               /\ focus' = FocusEffect(currentView, selectedReminderIndex, TRUE, focus)
               /\ flows' = [flows EXCEPT ![i] = Await(f, "get_unresolved_reminders", <<>>)]
               /\ UNCHANGED <<currentDate, reminders, showResolvedReminders, pastDays, aiLogs>>
          [] r.st = "ok" /\ f.call = "get_unresolved_reminders" ->
               /\ reminders' = setReminders(reminders, r.val)
               \* toggleShowResolved() of the closure, which saw resolved shown
               /\ showResolvedReminders' = IF f.c.show THEN FALSE ELSE showResolvedReminders
               /\ flows' = [flows EXCEPT ![i] =
                    CASE f.c.view = "history" -> Await(f, "get_all_notes", <<>>)
                      [] f.c.view = "ai-logs" -> Await(f, "get_all_ai_logs", <<>>)
                      [] OTHER                -> NoFlow]
               /\ UNCHANGED <<currentDate, notes, pastDays, aiLogs, focus>>
          [] r.st = "ok" /\ f.call = "get_all_notes" ->
               /\ pastDays' = r.val
               /\ flows' = [flows EXCEPT ![i] = NoFlow]
               /\ UNCHANGED <<currentDate, notes, reminders, showResolvedReminders, aiLogs, focus>>
          [] r.st = "ok" /\ f.call = "get_all_ai_logs" ->
               /\ aiLogs' = r.val
               /\ flows' = [flows EXCEPT ![i] = NoFlow]
               /\ UNCHANGED <<currentDate, notes, reminders, showResolvedReminders, pastDays, focus>>
  /\ UNCHANGED <<currentView, selectedReminderIndex, status, timers, resolvedReminders,
                 order, events, toggles, loadedDate>>

ReloadAnswered(i) ==
  /\ flows[i].kind = "reload"
  /\ \E ok \in BOOLEAN :
       /\ Gateway(flows[i], ok)
       /\ handleReloadResumed(i, Response(flows[i], ok))

\* ------------------------------------------- useKeyboardNavigation
\* e.key.toLowerCase() of the key events considered ("x": any other key)
Keys == {"t", "h", "r", "l", "j", "k", "escape", "x"}

\* The entry of the global table a keydown event selects: handleKeyDown
\* returns at once without Cmd/Ctrl, takes Cmd/Ctrl+Shift+R as reload and
\* otherwise switches on the key.
handleKeyDown(key, modifierKey, shiftKey) ==
  IF ~modifierKey THEN "none"
  ELSE IF key = "r" /\ shiftKey THEN "reload"
  ELSE IF key \in {"t", "h", "r", "l"} THEN key
  ELSE "none"

\* A navigation table that does not look at the modifier.
handleReminderNavigation_anyModifier(key, modifierKey) ==
  IF selectedReminderIndex = NoSel \/ currentView # "today" THEN "none"
  ELSE IF key \in {"j", "k", "r", "escape"} THEN key
  ELSE "none"

\* The entry of the navigation table a keydown event selects:
\* handleReminderNavigation returns at once without a selection, off today,
\* or with Cmd/Ctrl held.
handleReminderNavigation(key, modifierKey) ==
  IF selectedReminderIndex = NoSel \/ currentView # "today" THEN "none"
  ELSE IF modifierKey THEN "none"
  ELSE IF key \in {"j", "k", "r", "escape"} THEN key
  ELSE "none"

\* A keydown event on the window: each of the two listeners runs the entry
\* it selects.
KeyDown(key, modifierKey, shiftKey) ==
  LET g == handleKeyDown(key, modifierKey, shiftKey)
      n == handleReminderNavigation(key, modifierKey)
  IN \/ g = "reload" /\ Reload
     \/ g = "t" /\ SwitchView("today")
     \/ g = "h" /\ SwitchView("history")
     \/ g = "l" /\ SwitchView("ai-logs")
     \/ g = "r" /\ CmdR
     \/ n = "j" /\ KeyJ
     \/ n = "k" /\ KeyK
     \/ n = "r" /\ KeyR
     \/ n = "escape" /\ KeyEscape

\* ------------------------------------------------------ specification
Init ==
  /\ currentView = "today"
  /\ selectedReminderIndex = NoSel
  /\ pastDays = [d \in Dates |-> ""]
  /\ focus = "note"
  /\ notes = NoNote
  /\ currentDate = ""
  /\ status = StatusNone
  /\ timers = <<>>
  /\ reminders = <<>>
  /\ resolvedReminders = <<>>
  /\ showResolvedReminders = FALSE
  /\ aiLogs = <<>>
  /\ flows = [i \in 1..MaxFlows |->
               IF i = 1 THEN NewFlow("mount", "get_formatted_date", <<>>, <<>>) ELSE NoFlow]
  /\ \E n \in 0..MaxInit :
       /\ bUnres = 1..n
       /\ bRes = {MaxInit + 1}
       /\ nextId = MaxInit + 2
       \* the logs of the analyses that created these reminders
       /\ bLogs = 1..n
  /\ bNote = [d \in Dates |-> ""]
  /\ bDate = "d1"
  /\ order = <<>>
  /\ events = 0
  /\ toggles = 0
  /\ fails = 0
  /\ loadedDate = ""

\* Timers that are due fire.
TimerFires == DebounceFire \/ AnalyzingFire \/ IdleFire

\* A gateway call in flight is answered and its operation resumes.
Answered ==
  \E i \in 1..MaxFlows :
    \/ SaveAnswered(i)
    \/ MountAnswered(i)
    \/ ResolveAnswered(i)
    \/ UnresolveAnswered(i)
    \/ DeleteAnswered(i)
    \/ ToggleAnswered(i)
    \/ PrefetchAnswered(i)
    \/ ReloadAnswered(i)
    \/ DeleteAiLogAnswered(i)
    \/ DeleteAllAiLogsAnswered(i)

Next ==
  \/ \E t \in Texts : Keystroke(t)
  \/ PressEnter
  \/ \E v \in Views : SwitchView(v)
  \/ CmdR
  \/ KeyJ
  \/ KeyK
  \/ KeyEscape
  \/ KeyR
  \/ \E id \in 1..MaxRem : ClickResolve(id)
  \/ \E id \in 1..MaxRem : ClickUnresolve(id)
  \/ \E id \in 1..MaxRem, isResolved \in BOOLEAN : ClickDelete(id, isResolved)
  \/ ClickToggle
  \/ \E id \in 1..MaxLog : ClickDeleteAiLog(id)
  \/ ClickDeleteAllAiLogs
  \/ Reload
  \/ NextDay
  \/ TimerFires
  \/ Answered

Spec == Init /\ [][Next]_vars

\* The user writes, commits with Enter and changes views.
NextNotes ==
  \/ \E t \in Texts : Keystroke(t)
  \/ PressEnter
  \/ \E v \in Views : SwitchView(v)
  \/ TimerFires
  \/ \E i \in 1..MaxFlows : SaveAnswered(i) \/ MountAnswered(i) \/ PrefetchAnswered(i)

SpecNotes == Init /\ [][NextNotes]_vars

\* The same, on an event loop that runs every timer that is due and
\* delivers every answer of the gateway.
SpecNotesFair ==
  /\ SpecNotes
  /\ WF_vars(TimerFires)
  /\ WF_vars(\E i \in 1..MaxFlows : SaveAnswered(i) \/ MountAnswered(i) \/ PrefetchAnswered(i))

\* The user works the reminder list of today by keyboard and mouse.
NextSelection ==
  \/ CmdR
  \/ KeyJ
  \/ KeyK
  \/ KeyEscape
  \/ KeyR
  \/ \E id \in 1..MaxRem : ClickResolve(id)
  \/ \E id \in 1..MaxRem : ClickDelete(id, FALSE)
  \/ \E v \in Views : SwitchView(v)
  \/ \E i \in 1..MaxFlows :
       MountAnswered(i) \/ ResolveAnswered(i) \/ DeleteAnswered(i) \/ PrefetchAnswered(i)

SpecSelection == Init /\ [][NextSelection]_vars

\* The user writes and reloads while the calendar day may change.
NextReload ==
  \/ \E t \in Texts : Keystroke(t)
  \/ PressEnter
  \/ Reload
  \/ NextDay
  \/ TimerFires
  \/ \E i \in 1..MaxFlows : SaveAnswered(i) \/ MountAnswered(i) \/ ReloadAnswered(i)

SpecReload == Init /\ [][NextReload]_vars

\* The user writes on today and resolves or deletes reminders of its list.
NextEditResolve ==
  \/ \E t \in Texts : Keystroke(t)
  \/ PressEnter
  \/ \E id \in 1..MaxRem : ClickResolve(id)
  \/ \E id \in 1..MaxRem : ClickDelete(id, FALSE)
  \/ TimerFires
  \/ \E i \in 1..MaxFlows :
       SaveAnswered(i) \/ MountAnswered(i) \/ ResolveAnswered(i) \/ DeleteAnswered(i)

SpecEditResolve == Init /\ [][NextEditResolve]_vars

\* The user works the reminders view.
NextReminders ==
  \/ SwitchView("reminders")
  \/ ClickToggle
  \/ \E id \in 1..MaxRem : ClickResolve(id)
  \/ \E id \in 1..MaxRem : ClickUnresolve(id)
  \/ \E id \in 1..MaxRem, isResolved \in BOOLEAN : ClickDelete(id, isResolved)
  \/ \E i \in 1..MaxFlows :
       \/ MountAnswered(i) \/ ResolveAnswered(i) \/ UnresolveAnswered(i)
       \/ DeleteAnswered(i) \/ ToggleAnswered(i) \/ PrefetchAnswered(i)

SpecReminders == Init /\ [][NextReminders]_vars

\* The user changes views, shows or hides resolved reminders and reloads.
NextReloadViews ==
  \/ \E v \in Views : SwitchView(v)
  \/ ClickToggle
  \/ Reload
  \/ \E i \in 1..MaxFlows :
       MountAnswered(i) \/ ToggleAnswered(i) \/ PrefetchAnswered(i) \/ ReloadAnswered(i)

SpecReloadViews == Init /\ [][NextReloadViews]_vars

\* The user reloads, and reloads again.
NextReloadTwice ==
  \/ Reload
  \/ \E i \in 1..MaxFlows : MountAnswered(i) \/ ReloadAnswered(i)

SpecReloadTwice == Init /\ [][NextReloadTwice]_vars

\* The user works the AI-logs view.
NextAiLogs ==
  \/ SwitchView("ai-logs")
  \/ \E id \in 1..MaxLog : ClickDeleteAiLog(id)
  \/ ClickDeleteAllAiLogs
  \/ \E i \in 1..MaxFlows :
       \/ MountAnswered(i) \/ PrefetchAnswered(i)
       \/ DeleteAiLogAnswered(i) \/ DeleteAllAiLogsAnswered(i)

SpecAiLogs == Init /\ [][NextAiLogs]_vars

\* The user starts every kind of store operation, by mouse and by Enter.
NextStores ==
  \/ PressEnter
  \/ \E v \in Views : SwitchView(v)
  \/ \E id \in 1..MaxRem : ClickResolve(id)
  \/ \E id \in 1..MaxRem : ClickUnresolve(id)
  \/ \E id \in 1..MaxRem, isResolved \in BOOLEAN : ClickDelete(id, isResolved)
  \/ ClickToggle
  \/ \E id \in 1..MaxLog : ClickDeleteAiLog(id)
  \/ ClickDeleteAllAiLogs
  \/ Reload
  \/ AnalyzingFire
  \/ IdleFire
  \/ Answered

SpecStores == Init /\ [][NextStores]_vars

\* The state two overlapping saves leave behind once both have completed
\* and their 300 ms timers have fired: Enter was pressed twice on the empty
\* note of the day, nothing was added, and the 3000 ms timers of both saves
\* are pending, the later one being the one statusTimeoutRef refers to.
InitAfterSaves ==
  /\ currentView = "today"
  /\ selectedReminderIndex = NoSel
  /\ pastDays = [d \in Dates |-> ""]
  /\ focus = "note"
  /\ notes = Note("", "d1")
  /\ currentDate = "d1"
  /\ status = Status("ai-no-action")
  /\ timers = << [IdleTimer EXCEPT !.cur = FALSE, !.seq = 1], [IdleTimer EXCEPT !.seq = 2] >>
  /\ resolvedReminders = <<>>
  /\ showResolvedReminders = FALSE
  /\ aiLogs = <<>>
  /\ flows = [i \in 1..MaxFlows |-> NoFlow]
  /\ \E n \in 0..MaxInit :
       /\ reminders = SortedSeq(1..n)
       /\ bUnres = 1..n
       /\ bRes = {MaxInit + 1}
       /\ nextId = MaxInit + 2
       /\ bLogs = 1..(n + 2)
  /\ bNote = [d \in Dates |-> ""]
  /\ bDate = "d1"
  /\ order = <<>>
  /\ events = 0
  /\ toggles = 0
  /\ fails = 0
  /\ loadedDate = "d1"

\* The user goes on writing and saving after two overlapping saves.
NextLaterSave ==
  \/ \E t \in Texts : Keystroke(t)
  \/ PressEnter
  \/ TimerFires
  \/ \E i \in 1..MaxFlows : SaveAnswered(i)

SpecLaterSave == InitAfterSaves /\ [][NextLaterSave]_vars

\* The user works the application from the keyboard.
NextKeys ==
  \/ \E key \in Keys, modifierKey \in BOOLEAN, shiftKey \in BOOLEAN :
       KeyDown(key, modifierKey, shiftKey)
  \/ \E i \in 1..MaxFlows :
       \/ MountAnswered(i) \/ ResolveAnswered(i)
       \/ PrefetchAnswered(i) \/ ReloadAnswered(i)

SpecKeys == Init /\ [][NextKeys]_vars

\* The reminders view with the resolved reminders revealed: the state after
\* the load at mount, a switch to reminders and the show resolved button,
\* every call answered.
InitResolvedShown ==
  /\ currentView = "reminders"
  /\ selectedReminderIndex = NoSel
  /\ pastDays = [d \in Dates |-> ""]
  /\ focus = "other"
  /\ notes = Note("", "d1")
  /\ currentDate = "d1"
  /\ status = StatusNone
  /\ timers = <<>>
  /\ resolvedReminders = <<MaxInit + 1>>
  /\ showResolvedReminders = TRUE
  /\ aiLogs = <<>>
  /\ flows = [i \in 1..MaxFlows |-> NoFlow]
  /\ \E n \in 0..MaxInit :
       /\ reminders = SortedSeq(1..n)
       /\ bUnres = 1..n
       /\ bRes = {MaxInit + 1}
       /\ nextId = MaxInit + 2
       /\ bLogs = 1..n
  /\ bNote = [d \in Dates |-> ""]
  /\ bDate = "d1"
  /\ order = <<"clearSelection", "setView", "get_unresolved_reminders", "resetResolvedView">>
  /\ events = 0
  /\ toggles = 1
  /\ fails = 0
  /\ loadedDate = "d1"

\* The user resolves, unresolves and deletes on the reminders view with the
\* resolved reminders shown.
NextResolvedShown ==
  \/ \E id \in 1..MaxRem : ClickResolve(id)
  \/ \E id \in 1..MaxRem : ClickUnresolve(id)
  \/ \E id \in 1..MaxRem, isResolved \in BOOLEAN : ClickDelete(id, isResolved)
  \/ \E i \in 1..MaxFlows :
       ResolveAnswered(i) \/ UnresolveAnswered(i) \/ DeleteAnswered(i)

SpecResolvedShown == InitResolvedShown /\ [][NextResolvedShown]_vars

\* The user writes and works the reminder list of today from the keyboard.
NextSelectType ==
  \/ \E t \in Texts : Keystroke(t)
  \/ CmdR
  \/ KeyJ
  \/ KeyK
  \/ KeyEscape
  \/ KeyR
  \/ \E i \in 1..MaxFlows :
       MountAnswered(i) \/ ResolveAnswered(i) \/ PrefetchAnswered(i)

SpecSelectType == Init /\ [][NextSelectType]_vars

\* The state after the load at mount and a first keystroke: "a" is held
\* and its debounce timer is pending.
InitTyped ==
  /\ currentView = "today"
  /\ selectedReminderIndex = NoSel
  /\ pastDays = [d \in Dates |-> ""]
  /\ focus = "note"
  /\ notes = Note("a", "d1")
  /\ currentDate = "d1"
  /\ status = StatusNone
  /\ resolvedReminders = <<>>
  /\ showResolvedReminders = FALSE
  /\ aiLogs = <<>>
  /\ flows = [i \in 1..MaxFlows |-> NoFlow]
  /\ \E n \in 0..MaxInit :
       /\ reminders = SortedSeq(1..n)
       /\ timers = <<DebounceTimer("a", "d1", n)>>
       /\ bUnres = 1..n
       /\ bRes = {MaxInit + 1}
       /\ nextId = MaxInit + 2
       /\ bLogs = 1..n
  /\ bNote = [d \in Dates |-> ""]
  /\ bDate = "d1"
  /\ order = <<>>
  /\ events = 0
  /\ toggles = 0
  /\ fails = 0
  /\ loadedDate = "d1"

\* The user, having typed, goes on writing, reloads and commits with Enter.
NextTypedReload ==
  \/ \E t \in Texts : Keystroke(t)
  \/ PressEnter
  \/ Reload
  \/ TimerFires
  \/ \E i \in 1..MaxFlows : SaveAnswered(i) \/ ReloadAnswered(i)

SpecTypedReload == InitTyped /\ [][NextTypedReload]_vars

\* ------------------------------------------------------------ properties
IsDebounce(tm) == tm.kind = "debounce"
DebounceTimers(q) == SelectSeq(q, IsDebounce)
SavesInFlight == {i \in 1..MaxFlows : flows[i].kind = "save"}

\* The slots in which this step starts a save.
NewSaves == {i \in 1..MaxFlows : flows[i].kind = "none" /\ flows'[i].kind = "save"}

\* This step issues exactly one add_note call, and it carries (t, d).
IssuesOne(t, d) ==
  \E i \in 1..MaxFlows :
    /\ NewSaves = {i}
    /\ flows'[i].call = "add_note"
    /\ flows'[i].arg = [text |-> t, date |-> d]

\* What one step does to the debounce timer and to the add_note calls.
C1_Step ==
  /\ \A t \in Texts :
       Keystroke(t) /\ currentDate # "" =>
         /\ DebounceTimers(timers') = <<DebounceTimer(t, currentDate, Len(reminders))>>
         /\ NewSaves = {}
  /\ DebounceFire =>
       /\ IssuesOne(Head(timers).text, Head(timers).date)
       /\ DebounceTimers(timers') = <<>>
  /\ events' = events /\ ~DebounceFire =>
       /\ DebounceTimers(timers') = DebounceTimers(timers)
       /\ NewSaves = {}

\* C1: the debounce is a single slot.  A keystroke with the date resolved
\* cancels the pending debounce timer and arms one that carries its text,
\* without saving; only a keystroke, Enter or a view switch touches that
\* timer before it fires; when it fires, exactly one add_note call is issued,
\* with the text and date the timer carries, and no debounce timer stays
\* behind; and a pending debounce timer does not stay pending for ever.
C1_DebounceSingleSlot ==
  /\ [][C1_Step]_vars
  /\ <>[](~IsPending(timers, "debounce"))

\* Two keystrokes, the second one with the empty text, and nothing saved yet:
\* the one pending timer is the one of the second keystroke.
C1_Witness ==
  /\ Len(DebounceTimers(timers)) = 1
  /\ DebounceTimers(timers)[1].text = ""
  /\ events = 2
  /\ SavesInFlight = {}
  /\ bLogs = {}
  /\ fails = 0

\* C2: no 300 ms timer of a save that has already completed (add_note and
\* the re-fetch both resolved) fires and shows ai-running before the next
\* save starts.
C2_FastSaveNeverAnalyzing ==
  [][AnalyzingFire => ~(Head(timers).ended = "ok" /\ Head(timers).cur)]_vars

\* C3: the status does not get stuck: it eventually is none and stays none.
C3_StatusReturnsToNone == <>[](status.type = "none")

\* C8: switching away from today with the date resolved issues exactly one
\* add_note call with the held text, empty or not, and leaves no debounce
\* timer pending.
C8_SwitchAwaySaves ==
  [][\A v \in Views \ {"today"} :
       SwitchView(v) /\ currentView = "today" /\ currentDate # "" =>
         /\ IssuesOne(HeldText, currentDate)
         /\ ~IsPending(timers', "debounce")]_vars

\* C9: a switch from today to history or ai-logs with non-empty held text
\* issues add_note with (held text, current date), then clears the
\* selection, then changes the view, then issues the prefetch of the target
\* view; the view has changed while the add_note call is still in flight.
C9_SwitchOrder ==
  [][\A v \in {"history", "ai-logs"} :
       SwitchView(v) /\ currentView = "today" /\ HeldText # "" /\ currentDate # "" =>
         LET call == IF v = "history" THEN "get_all_notes" ELSE "get_all_ai_logs"
         IN /\ order' = <<"add_note", "clearSelection", "setView", call>>
            /\ IssuesOne(HeldText, currentDate)
            /\ selectedReminderIndex' = NoSel
            /\ currentView' = v
            /\ \E i \in 1..MaxFlows :
                 /\ flows[i].kind = "none"
                 /\ flows'[i].kind = (IF v = "history" THEN "history" ELSE "loadAiLogs")
                 /\ flows'[i].call = call]_vars

\* History is shown while the save of "a" that the switch started still
\* waits for add_note and the prefetch of the history is in flight.
C9_Witness ==
  /\ currentView = "history"
  /\ order = <<"add_note", "clearSelection", "setView", "get_all_notes">>
  /\ \E i \in 1..MaxFlows :
       /\ flows[i].kind = "save" /\ flows[i].call = "add_note"
       /\ flows[i].arg = [text |-> "a", date |-> currentDate]
  /\ \E i \in 1..MaxFlows : flows[i].kind = "history"

\* C10: Enter with the date resolved leaves no debounce timer pending and
\* issues exactly one add_note call with the held text (the empty string
\* when none is held) and the current date.
C10_EnterSaves ==
  [][PressEnter /\ currentDate # "" =>
       /\ ~IsPending(timers', "debounce")
       /\ IssuesOne(HeldText, currentDate)]_vars

\* "a" was typed and Enter pressed while the note of the day was still
\* loading: one save of "a" in flight, nothing saved before, no timer of the
\* keystroke left.
C10_Witness ==
  /\ events = 2
  /\ order = <<>>
  /\ ~IsPending(timers, "debounce")
  /\ \E i \in 1..MaxFlows :
       /\ SavesInFlight = {i}
       /\ flows[i].call = "add_note"
       /\ flows[i].arg = [text |-> "a", date |-> currentDate]
  /\ \E i \in 1..MaxFlows :
       flows[i].kind = "mount" /\ flows[i].call = "get_notes_for_date"
  /\ HeldText = "a"
  /\ bLogs = {}
  /\ fails = 0

\* C4: a selection is an index into the unresolved reminders held.
C4_SelectionValid ==
  selectedReminderIndex # NoSel =>
    0 <= selectedReminderIndex /\ selectedReminderIndex < Len(reminders)

\* The resolve of the selected reminder, started from the keyboard or its
\* button on today, is in its last await in slot i, and nothing else has
\* touched the selection, the view or the reminders since.
C5_Isolated(i) ==
  /\ flows[i].kind = "resolve"
  /\ flows[i].call = "get_unresolved_reminders"
  /\ flows[i].c.handled /\ ~flows[i].c.show
  /\ currentView = "today"
  /\ selectedReminderIndex # NoSel
  /\ selectedReminderIndex < Len(reminders)
  /\ flows[i].c.sel = selectedReminderIndex
  /\ reminders[selectedReminderIndex + 1] = flows[i].c.id
  /\ bUnres = Range(reminders) \ {flows[i].c.id}

\* C5: with L unresolved reminders and the selection at index i, a
\* successful resolve of the reminder at i leaves L-1 reminders and the
\* selection at min(i, L-2) when L-1 > 0, and otherwise no selection and the
\* focus in the note field.
C5_ResolveReclamps ==
  [][\A i \in 1..MaxFlows :
       C5_Isolated(i) /\ resolveReminderResumed(i, Response(flows[i], TRUE)) =>
         LET L == Len(reminders)
         IN /\ Len(reminders') = L - 1
            /\ L - 1 > 0 => selectedReminderIndex' = Min(selectedReminderIndex, L - 2)
            /\ L - 1 = 0 => selectedReminderIndex' = NoSel /\ focus' = "note"]_vars

\* The last of two reminders is selected and its resolve is about to return.
C5_Witness ==
  \E i \in 1..MaxFlows :
    C5_Isolated(i) /\ Len(reminders) = 2 /\ selectedReminderIndex = 1

\* C6: there is a selection only while today is the active view.
C6_SelectionOnlyOnToday ==
  currentView # "today" => selectedReminderIndex = NoSel

\* C7: no reminder is held both as unresolved and as resolved.
C7_Partition == Range(reminders) \cap Range(resolvedReminders) = {}

\* C11: every add_note call carries the date key the load at mount obtained.
C11_DatePinned ==
  [][\A i \in NewSaves : loadedDate # "" => flows'[i].arg.date = loadedDate]_vars

\* C12: the baseline of a save is the number of unresolved reminders held
\* at the moment the save begins.
C12_BaselineFresh ==
  [][\A i \in NewSaves : flows'[i].c.base = Len(reminders)]_vars

\* The save in slot i completes in this step: its re-fetch resolves.
SaveCompletes(i) ==
  /\ flows[i].kind = "save"
  /\ flows[i].call = "get_unresolved_reminders"
  /\ flows'[i].kind = "none"
  /\ fails' = fails

\* C13: when add_note and the re-fetch of a save both succeed, the
\* unresolved collection becomes the re-fetched one and the status becomes
\* ai-success(d) when d = re-fetched count - baseline of the save > 0, and
\* ai-no-action when d <= 0.
C13_SaveOutcome ==
  [][\A i \in 1..MaxFlows :
       SaveCompletes(i) =>
         LET d == Cardinality(bUnres) - flows[i].c.base
         IN /\ reminders' = SortedSeq(bUnres)
            /\ d > 0 => status' = [type |-> "ai-success", remindersCount |-> d]
            /\ d <= 0 => status' = [type |-> "ai-no-action", remindersCount |-> 0]]_vars

\* A save has just completed and reports the one reminder it added.
C13_Witness ==
  /\ status = [type |-> "ai-success", remindersCount |-> 1]
  /\ SavesInFlight = {}
  /\ IsPending(timers, "idle")
  /\ Len(reminders) = Cardinality(bUnres)

\* The save in slot i fails in this step: add_note or its re-fetch rejects.
SaveFails(i) ==
  /\ flows[i].kind = "save"
  /\ flows'[i].kind = "none"
  /\ fails' = fails + 1

IsIdle(tm) == tm.kind = "idle"
IdleTimers(q) == SelectSeq(q, IsIdle)
OutcomeStatus(st) == st.type \in {"ai-success", "ai-no-action"}

\* C14: when a save fails, at add_note or at its re-fetch, the status is
\* none at that moment, the failing save arms no 3000 ms timer and leaves
\* the unresolved collection alone; and an outcome status is only ever set
\* by a save that completes.
C14_SaveFailure ==
  [][/\ \A i \in 1..MaxFlows :
          SaveFails(i) =>
            /\ status' = StatusNone
            /\ IdleTimers(timers') = IdleTimers(timers)
            /\ reminders' = reminders
     /\ OutcomeStatus(status') /\ status' # status =>
          \E i \in 1..MaxFlows : SaveCompletes(i)]_vars

\* A save has just failed: status none, its 300 ms timer still pending, no
\* 3000 ms timer.
C14_Witness ==
  /\ status = StatusNone
  /\ \E j \in 1..Len(timers) : timers[j].kind = "analyzing" /\ timers[j].ended = "failed"
  /\ ~IsPending(timers, "idle")
  /\ SavesInFlight = {}

\* C15: no 3000 ms timer armed by an earlier save fires and sets the status
\* to none while a save that began later is in flight.
C15_NoStaleAutoClear ==
  [][IdleFire => \A i \in SavesInFlight : flows[i].c.seq < Head(timers).seq]_vars

MutationKinds == {"resolve", "unresolve", "delete"}
MutationCalls == {"resolve_reminder", "unresolve_reminder", "delete_reminder"}

\* C16: after a successful resolve, unresolve or delete call the operation
\* re-fetches the unresolved collection, and after that it re-fetches the
\* resolved collection exactly when the resolved collection is visible.
C16_MutationRefetches ==
  [][\A i \in 1..MaxFlows :
       flows[i].kind \in MutationKinds /\ flows'[i] # flows[i] /\ fails' = fails =>
         /\ flows[i].call \in MutationCalls =>
              flows'[i].kind # "none" /\ flows'[i].call = "get_unresolved_reminders"
         /\ flows[i].call = "get_unresolved_reminders" =>
              (showResolvedReminders <=>
                 flows'[i].kind # "none" /\ flows'[i].call = "get_resolved_reminders")]_vars

MutationFails(i) ==
  /\ flows[i].kind \in MutationKinds
  /\ flows'[i].kind = "none"
  /\ fails' = fails + 1

\* C17: a resolve, unresolve or delete operation that fails at one of its
\* gateway calls has not replaced the unresolved collection since it was
\* invoked, and its failing leaves both collections and the selection as
\* they are.
C17_FailureLeavesState ==
  [][\A i \in 1..MaxFlows :
       MutationFails(i) =>
         /\ ~flows[i].c.changed
         /\ reminders' = reminders
         /\ resolvedReminders' = resolvedReminders
         /\ selectedReminderIndex' = selectedReminderIndex]_vars

\* C18: Cmd/Ctrl+R on today with no selection and at least one unresolved
\* reminder selects index 0 and stays on today; in every other state,
\* today with no selection and no unresolved reminder included, no
\* Cmd/Ctrl+R step ends on a view other than reminders.
C18_CmdRSwitchesOrSelects ==
  IF currentView = "today" /\ selectedReminderIndex = NoSel /\ Len(reminders) > 0
  THEN ~ENABLED (CmdR /\ ~(selectedReminderIndex' = 0 /\ currentView' = "today"))
  ELSE ~ENABLED (CmdR /\ currentView' # "reminders")

\* C19: on today with a selection at index i and an unresolved collection of
\* length L, no J step leaves the selection elsewhere than min(i+1, L-1), no
\* K step elsewhere than max(i-1, 0), and neither leaves it outside 0..L-1.
C19_JKClamp ==
  currentView = "today" /\ selectedReminderIndex # NoSel =>
    LET i == selectedReminderIndex
        L == Len(reminders)
    IN /\ ~ENABLED (KeyJ /\ selectedReminderIndex' # Min(i + 1, L - 1))
       /\ ~ENABLED (KeyK /\ selectedReminderIndex' # (IF i - 1 > 0 THEN i - 1 ELSE 0))
       /\ ~ENABLED ((KeyJ \/ KeyK) /\ selectedReminderIndex' \notin 0..(L - 1))

\* A reload in slot i takes a step on a successful answer.
ReloadStep(i) ==
  /\ flows[i].kind = "reload"
  /\ flows'[i] # flows[i]
  /\ fails' = fails

\* The call slot i waits for after the step, "none" when it has finished.
NextCall(i) == IF flows'[i].kind = "none" THEN "none" ELSE flows'[i].call

ViewFetch(view) ==
  CASE view = "history" -> "get_all_notes"
    [] view = "ai-logs" -> "get_all_ai_logs"
    [] OTHER            -> "none"

\* C20: a reload invoked while the resolved collection is visible leaves it
\* visible, and calls in turn init_db, get_formatted_date,
\* get_notes_for_date, get_unresolved_reminders, get_resolved_reminders and
\* then the fetch of the history or AI-logs view when that view is active.
C20_ReloadKeepsResolved ==
  [][\A i \in 1..MaxFlows :
       ReloadStep(i) /\ flows[i].c.show =>
         /\ showResolvedReminders => showResolvedReminders'
         /\ flows[i].call = "init_db" => NextCall(i) = "get_formatted_date"
         /\ flows[i].call = "get_formatted_date" => NextCall(i) = "get_notes_for_date"
         /\ flows[i].call = "get_notes_for_date" => NextCall(i) = "get_unresolved_reminders"
         /\ flows[i].call = "get_unresolved_reminders" => NextCall(i) = "get_resolved_reminders"
         /\ flows[i].call = "get_resolved_reminders" => NextCall(i) = ViewFetch(flows[i].c.view)]_vars

\* No operation other than the one in slot i is in flight.
Alone(i) == \A j \in 1..MaxFlows : j # i => flows[j].kind = "none"

StepOk(i, kind) ==
  /\ flows[i].kind = kind
  /\ flows'[i] # flows[i]
  /\ fails' = fails

\* The pending call of the operation in slot i is rejected.
StepFails(i, kind) ==
  /\ flows[i].kind = kind
  /\ flows'[i] # flows[i]
  /\ fails' = fails + 1

\* C22: a successful delete_ai_log is followed by get_all_ai_logs, whose
\* result replaces the local logs; a successful delete_all_ai_logs empties
\* the local logs and ends the operation with no further call; a rejected
\* delete_ai_log or delete_all_ai_logs leaves the local logs as they are.
C22_AiLogStore ==
  [][\A i \in 1..MaxFlows :
       /\ StepOk(i, "deleteAiLog") /\ flows[i].call = "delete_ai_log" =>
            NextCall(i) = "get_all_ai_logs" /\ aiLogs' = aiLogs
       /\ StepOk(i, "deleteAiLog") /\ flows[i].call = "get_all_ai_logs" =>
            NextCall(i) = "none" /\ aiLogs' = SortedSeq(bLogs)
       /\ StepOk(i, "deleteAllAiLogs") =>
            NextCall(i) = "none" /\ aiLogs' = <<>>
       /\ StepFails(i, "deleteAllAiLogs") => aiLogs' = aiLogs
       /\ StepFails(i, "deleteAiLog") /\ flows[i].call = "delete_ai_log" =>
            aiLogs' = aiLogs]_vars

\* One of two logs was deleted and the list was loaded again.
C22_Witness ==
  /\ currentView = "ai-logs"
  /\ aiLogs = <<2>> /\ bLogs = {2}
  /\ \A i \in 1..MaxFlows : flows[i].kind = "none"
  /\ fails = 0

\* The pending call of the operation in slot i is rejected.
Rejected(i) ==
  /\ flows[i].kind # "none"
  /\ flows'[i] # flows[i]
  /\ fails' = fails + 1

\* C23: when a gateway call of a store operation is rejected, the operation
\* ends there (init goes on to load the unresolved reminders after a failed
\* loadTodayNote), the controller's state and every collection stay as they
\* are, a save resets the status to none, and a toggle that could not load
\* the resolved reminders still shows the list it holds.
C23_RejectionsCaught ==
  [][\A i \in 1..MaxFlows :
       Rejected(i) =>
         /\ NextCall(i) =
              IF flows[i].kind = "mount" /\ flows[i].call # "get_unresolved_reminders"
              THEN "get_unresolved_reminders" ELSE "none"
         /\ UNCHANGED <<currentView, selectedReminderIndex, pastDays, focus>>
         /\ UNCHANGED <<notes, currentDate, reminders, resolvedReminders, aiLogs>>
         /\ status' = IF flows[i].kind = "save" THEN StatusNone ELSE status
         /\ flows[i].kind # "save" => timers' = timers
         /\ showResolvedReminders' =
              IF flows[i].kind = "toggle" THEN ~flows[i].c.show
              ELSE showResolvedReminders]_vars

\* loadTodayNote failed at get_formatted_date and init went on: the
\* reminders are loaded, the note and the date are not.
C23_Witness ==
  /\ fails = 1
  /\ notes.isNull /\ currentDate = ""
  /\ reminders # <<>>
  /\ \A i \in 1..MaxFlows : flows[i].kind = "none"

\* The step is a save trigger: a debounce timer fires, Enter is pressed
\* with a date, or the view is switched away from a note that has text.
SaveTrigger ==
  \/ DebounceFire
  \/ currentDate # "" /\ PressEnter
  \/ switchSaves /\ \E v \in Views : DoSwitchView(v)

\* C24: every save trigger issues exactly one add_note call and no other
\* step issues one; in particular a save whose call is rejected ends
\* without a further call.
C24_NoRetry ==
  [][/\ SaveTrigger => Cardinality(NewSaves) = 1
     /\ ~SaveTrigger => NewSaves = {}
     /\ \A i \in 1..MaxFlows :
          /\ flows'[i] # flows[i] /\ flows'[i].kind = "save" /\ flows'[i].call = "add_note"
               => i \in NewSaves
          /\ Rejected(i) /\ flows[i].kind = "save" => NextCall(i) = "none"]_vars

\* Enter was pressed twice: one save was rejected (its 300 ms timer is
\* still pending), the other completed, and no save is in flight.
C24_Witness ==
  /\ events = 2 /\ fails = 1
  /\ SavesInFlight = {}
  /\ \E j \in 1..Len(timers) : timers[j].kind = "analyzing" /\ timers[j].ended = "failed"
  /\ IsPending(timers, "idle")

\* The 300 ms timer of the save in slot i is pending in q.
PendingAnalyzing(q, i) ==
  \E j \in 1..Len(q) : q[j].kind = "analyzing" /\ q[j].slot = i

\* Every pending 3000 ms timer was armed by a save that began before the
\* save in slot i.
NoLaterIdle(i) ==
  \A j \in 1..Len(timers) : timers[j].kind = "idle" => timers[j].seq < flows[i].c.seq

\* Slot i holds a save that began with no other save in flight and has had
\* none beside it since.
LoneSave(i) ==
  /\ flows[i].kind = "save" /\ flows[i].c.lone
  /\ SavesInFlight = {i}
  /\ NoLaterIdle(i)

\* C25: the 300 ms timer of a save in flight stays pending until it fires
\* and sets ai-running; and once it has fired, with no other save
\* overlapping, the status stays ai-running as long as the save is in flight.
C25_AnalyzingUntilResolved ==
  [][\A i \in 1..MaxFlows :
       /\ flows[i].kind = "save" /\ flows'[i].kind = "save" /\ PendingAnalyzing(timers, i) =>
            PendingAnalyzing(timers', i) \/ status' = Status("ai-running")
       /\ ( /\ LoneSave(i) /\ ~PendingAnalyzing(timers, i)
            /\ status = Status("ai-running")
            /\ flows'[i].kind = "save" /\ NewSaves = {} ) =>
            status' = Status("ai-running")]_vars

\* The pending timers of a kind.
PendingOf(kind) == {j \in 1..Len(timers) : timers[j].kind = kind}

\* C26: at most one 300 ms timer and at most one 3000 ms timer is pending.
C26_SingleSlotTimers ==
  /\ Cardinality(PendingOf("analyzing")) <= 1
  /\ Cardinality(PendingOf("idle")) <= 1

\* C27: at most one debounce timer is pending; after a keystroke with the
\* date resolved it is the timer of that keystroke, after Enter with the
\* date resolved none is pending, and a debounce timer that fires is the
\* only one there was.
C27_DebounceLatestOnly ==
  [][/\ Len(DebounceTimers(timers')) <= 1
     /\ \A t \in Texts :
          Keystroke(t) /\ currentDate # "" =>
            DebounceTimers(timers') = <<DebounceTimer(t, currentDate, Len(reminders))>>
     /\ PressEnter /\ currentDate # "" => DebounceTimers(timers') = <<>>
     /\ DebounceFire =>
          DebounceTimers(timers) = <<Head(timers)>> /\ DebounceTimers(timers') = <<>>]_vars

\* "a" was typed and Enter pressed after the note of the day had loaded:
\* the save of "a" is the only operation in flight and no debounce timer is
\* pending.
C27_Witness ==
  /\ events = 2 /\ fails = 0
  /\ HeldText = "a"
  /\ ~IsPending(timers, "debounce")
  /\ \E i \in 1..MaxFlows :
       /\ Alone(i)
       /\ flows[i].kind = "save" /\ flows[i].call = "add_note"
       /\ flows[i].arg = [text |-> "a", date |-> currentDate]
  /\ currentView = "today"

\* C28: for every key event at most one of the two tables selects an entry:
\* with Cmd/Ctrl held the navigation table selects none, without it the
\* global table selects none and the navigation table selects one only on
\* today with a selection; and an event for which neither selects an entry
\* changes nothing.
C28_OneShortcutTable ==
  \A key \in Keys, modifierKey \in BOOLEAN, shiftKey \in BOOLEAN :
    LET g == handleKeyDown(key, modifierKey, shiftKey)
        n == handleReminderNavigation(key, modifierKey)
    IN /\ g = "none" \/ n = "none"
       /\ modifierKey => n = "none"
       /\ ~modifierKey => g = "none"
       /\ n # "none" => currentView = "today" /\ selectedReminderIndex # NoSel
       /\ g = "none" /\ n = "none" =>
            ~ENABLED (KeyDown(key, modifierKey, shiftKey) /\ vars' # vars)

\* On today the second of two reminders is selected (Cmd/Ctrl+R, then J):
\* a state in which both tables have an entry for the key R.
C28_Witness ==
  /\ currentView = "today"
  /\ selectedReminderIndex = 1
  /\ Len(reminders) = 2
  /\ \A i \in 1..MaxFlows : flows[i].kind = "none"
  /\ events = 0

\* C29: a step that changes the view leaves every save in flight as it is;
\* a save that completes off today replaces the unresolved collection with
\* the re-fetched one, sets its outcome and arms the 3000 ms timer as on
\* today; and that timer, firing off today, sets the status to none.
C29_SaveSurvivesSwitch ==
  [][/\ currentView' # currentView =>
          \A i \in SavesInFlight : flows'[i] = flows[i]
     /\ \A i \in 1..MaxFlows :
          SaveCompletes(i) /\ currentView # "today" =>
            /\ reminders' = SortedSeq(bUnres)
            /\ status' = Outcome(SortedSeq(bUnres), flows[i].c.base)
            /\ \E j \in 1..Len(timers') : timers'[j].kind = "idle" /\ timers'[j].cur
     /\ IdleFire /\ currentView # "today" => status' = StatusNone]_vars

\* "a" was typed and the view switched to history, which started the save;
\* the save has completed there, its outcome is shown and its 3000 ms
\* timer is pending.
C29_Witness ==
  /\ currentView = "history"
  /\ order = <<"add_note", "clearSelection", "setView", "get_all_notes">>
  /\ SavesInFlight = {}
  /\ OutcomeStatus(status)
  /\ IsPending(timers, "idle")
  /\ bNote[currentDate] = "a"

\* This step puts the call in flight for the operation in slot i.
Issues(i, call) ==
  /\ flows'[i].kind # "none" /\ flows'[i].call = call
  /\ flows[i].kind = "none" \/ flows[i].call # call

\* C30: get_resolved_reminders is put in flight only by a toggle invoked
\* while the resolved reminders are hidden, or as the re-fetch of a resolve,
\* unresolve or delete invoked while they are shown; a toggle from shown to
\* hidden puts no call in flight.
C30_ResolvedLazy ==
  [][/\ \A i \in 1..MaxFlows :
          Issues(i, "get_resolved_reminders") =>
            \/ flows'[i].kind = "toggle" /\ ~showResolvedReminders
            \/ flows'[i].kind \in MutationKinds /\ flows'[i].c.show
     /\ ClickToggle /\ showResolvedReminders =>
          ~showResolvedReminders' /\ flows' = flows]_vars

\* The reminders view after the resolved reminders were revealed, which
\* loaded them, and hidden again with the button: nothing is in flight.
C30_Witness ==
  /\ currentView = "reminders"
  /\ ~showResolvedReminders
  /\ resolvedReminders = SortedSeq(bRes) /\ resolvedReminders # <<>>
  /\ toggles = 2 /\ events = 1
  /\ \A i \in 1..MaxFlows : flows[i].kind = "none"

\* C31: no add_note call carries an empty date, and while the date is not
\* resolved no step, of a keystroke, of Enter or of a view switch, arms a
\* debounce timer or issues a save.
C31_NoSaveWithoutDate ==
  [][/\ \A i \in NewSaves : flows'[i].arg.date # ""
     /\ currentDate = "" =>
          /\ NewSaves = {}
          /\ ~IsPending(timers', "debounce")
     /\ currentDate = "" /\ (PressEnter \/ \E v \in Views : DoSwitchView(v)) =>
          UNCHANGED <<status, timers, notes>>]_vars

\* loadTodayNote failed, so the date is not resolved; the view was switched
\* to history and nothing was saved and no timer armed.
C31_Witness ==
  /\ currentDate = "" /\ fails = 1
  /\ currentView = "history" /\ events = 1
  /\ timers = <<>> /\ SavesInFlight = {}
  /\ status = StatusNone

\* C32: whenever no gateway call is in flight, and none was rejected, the
\* unresolved collection held is the backend's set of unresolved reminders.
C32_LastRefetchWins ==
  (fails = 0 /\ \A i \in 1..MaxFlows : flows[i].kind = "none") =>
    reminders = SortedSeq(bUnres)

\* The selection handleResolveReminder would set from the selection sel and
\* the list it got back.
Reclamped(sel, updated) ==
  IF sel = NoSel THEN NoSel
  ELSE IF Len(updated) > 0 THEN Min(sel, Len(updated) - 1) ELSE NoSel

\* C33: when a resolve started through handleResolveReminder with a
\* selection completes, the selection it leaves is derived from the
\* selection at that moment: none stays none, an index is re-clamped to the
\* new list.
C33_SelectionAtCompletion ==
  [][\A i \in 1..MaxFlows :
       ( /\ flows[i].kind = "resolve" /\ flows[i].c.handled
         /\ flows[i].c.sel # NoSel
         /\ flows'[i].kind = "none" /\ fails' = fails ) =>
         selectedReminderIndex' = Reclamped(selectedReminderIndex, reminders')]_vars

\* C34: while a save is in flight, and no call was rejected, the status is
\* saving or ai-running.
C34_StatusWhileSaving ==
  SavesInFlight # {} /\ fails = 0 => status.type \in {"saving", "ai-running"}

\* The unresolved reminders the analyses have added since the start.
Created == nextId - (MaxInit + 2)

\* C35: when a save completes with ai-success while the status still shows
\* the ai-success of a save that overlapped it, the two counts together do
\* not exceed the number of unresolved reminders added since the first of
\* the two began.
C35_OverlapCounts ==
  [][\A i \in 1..MaxFlows :
       ( /\ SaveCompletes(i)
         /\ status.type = "ai-success" /\ status'.type = "ai-success" ) =>
         status.remindersCount + status'.remindersCount <= Created]_vars

\* C36: typed text is not lost: a pending debounce timer carries the text of
\* the most recent keystroke, which is not saved yet; a step that issues
\* add_note while that timer is pending carries that text, and the timer is
\* only cancelled by a step that issues add_note.
C36_TypedTextSaved ==
  [][/\ \A i \in NewSaves :
          IsPending(timers, "debounce") =>
            flows'[i].arg.text = DebounceTimers(timers)[1].text
     /\ IsPending(timers, "debounce") /\ ~IsPending(timers', "debounce") =>
          NewSaves # {}]_vars

\* C37: the resolved reminders are hidden on entering the reminders view;
\* after the button was used twice there, and every load it started has
\* resolved, they are hidden again.
C37_DoubleToggle ==
  ( /\ events = 1 /\ toggles = 2 /\ fails = 0
    /\ \A i \in 1..MaxFlows : flows[i].kind # "toggle" ) =>
    ~showResolvedReminders

\* C38: no keystroke in the note field leaves a selection: after a text
\* change the selection is none, whatever it was before.
C38_KeystrokeClearsSelection ==
  \A t \in Texts : ~ENABLED (Keystroke(t) /\ selectedReminderIndex' # NoSel)

\* Index 0 was selected and R pressed; while that resolve was in flight "a"
\* was typed: the selection is none and the timer of the keystroke pending.
C38_Witness ==
  /\ selectedReminderIndex = NoSel
  /\ HeldText = "a" /\ IsPending(timers, "debounce")
  /\ events = 2
  /\ \E i \in 1..MaxFlows :
       /\ flows[i].kind = "resolve" /\ flows[i].call = "resolve_reminder"
       /\ flows[i].c.sel = 0

\* C39: every switch to the reminders view, from any view, hides the
\* resolved reminders, empties the resolved collection held and puts a
\* get_unresolved_reminders call in flight.
C39_RemindersViewResets ==
  [][DoSwitchView("reminders") =>
       /\ ~showResolvedReminders'
       /\ resolvedReminders' = <<>>
       /\ \E i \in 1..MaxFlows :
            /\ flows[i].kind = "none"
            /\ flows'[i].kind = "loadUnresolved"
            /\ flows'[i].call = "get_unresolved_reminders"]_vars

\* On the reminders view the resolved reminders were revealed and loaded;
\* the view was then switched to reminders again: they are hidden, the
\* collection is empty and the re-fetch of the unresolved ones is in flight.
C39_Witness ==
  /\ currentView = "reminders"
  /\ ~showResolvedReminders /\ resolvedReminders = <<>>
  /\ toggles = 1 /\ events = 2 /\ fails = 0
  /\ \A i \in 1..MaxFlows : flows[i].kind # "toggle"
  /\ \E i \in 1..MaxFlows :
       flows[i].kind = "loadUnresolved" /\ flows[i].call = "get_unresolved_reminders"

\* C40: a J, K or Escape step changes nothing but the selection and the
\* input focus: no gateway call is put in flight, and the view, the note,
\* the status, the timers, both reminder collections and everything else
\* the client holds stay as they are.
C40_NavigationFrame ==
  [][KeyJ \/ KeyK \/ KeyEscape =>
       /\ flows' = flows
       /\ UNCHANGED <<currentView, notes, currentDate, status, timers>>
       /\ UNCHANGED <<reminders, resolvedReminders, showResolvedReminders>>
       /\ UNCHANGED <<pastDays, aiLogs, backVars>>]_vars

\* "a" was typed, Cmd/Ctrl+R selected index 0 and J moved to index 1: the
\* note, the pending timer of the keystroke and the list are as they were.
C40_Witness ==
  /\ currentView = "today"
  /\ selectedReminderIndex = 1 /\ reminders = <<1, 2>>
  /\ HeldText = "a"
  /\ timers = <<DebounceTimer("a", currentDate, 2)>>
  /\ events = 1
  /\ \A i \in 1..MaxFlows : flows[i].kind = "none"

====
